---------------------------- MODULE Spec2Model ----------------------------
(***************************************************************************)
(* Model of intra_deploy/main.py: the Svix poller.  main() checks the      *)
(* configuration, installs handle_shutdown for SIGINT/SIGTERM and runs     *)
(* run_poller under asyncio.run.  run_poller is one coroutine looping      *)
(* poll_messages -> process_messages -> cursor update -> asyncio.sleep.    *)
(*                                                                         *)
(* JSON values whose Python type the code depends on are tagged records    *)
(* [type, val]; a JSON object is a TLA+ function from its keys, so that    *)
(* dict.get(key, default) is modelled by a test on DOMAIN.                 *)
(***************************************************************************)
EXTENDS Integers, Sequences, FiniteSets, TLC

\* Longest data array the modelled server returns in one response.
MaxBatch == 2

\* The model counts the deploy() calls made for one message id up to this.
MaxDeploys == 2

\* Python's None (cursor strings and refs are drawn from sets without it).
None == "None"

\* exitStatus of a process that has not exited yet (no status main.py or
\* the interpreter produces).
Running == 0 - 1

-----------------------------------------------------------------------------
(* Python helpers *)

\* bool(x) for x a str or None: None and "" are falsy.
Truthy(x) == x # None /\ x # ""

\* d.get(k, default) for a dict d.
PyGet(d, k, default) == IF k \in DOMAIN d THEN d[k] ELSE default

\* The empty dict {} (default of msg.get("payload", {})).
EmptyDict == [k \in {} |-> None]

\* isinstance(exc, Exception): SystemExit, KeyboardInterrupt and
\* asyncio.CancelledError derive from BaseException only.
IsException(exc) == exc \in {"AttributeError", "ClientError", "JSONDecodeError"}

-----------------------------------------------------------------------------
(* Inputs: environment, payloads, envelopes, responses *)

EnvValues == {None, "", "set"}

Cursors == {"", "c1", "c2"}

MsgIds == {"m1"}

Refs == {"refs/heads/master", "refs/heads/main", "refs/heads/dev"}

JObject(d) == [type |-> "object", val |-> d]

\* A JSON value that is not an object (a string here; a number, a list or
\* null has no .get either).
NonMapping == [type |-> "string", val |-> "junk"]

IsMapping(v) == v.type = "object"

\* Payload dicts: with a ref, or without one (only some other field).
PayloadDicts == [ref : Refs] \cup {[after |-> "abc"]}

Payloads == {JObject(d) : d \in PayloadDicts} \cup {NonMapping}

\* Envelope dicts: id and payload, or id only.
EnvelopeDicts == [id : MsgIds, payload : Payloads] \cup [id : MsgIds]

Envelopes == {JObject(d) : d \in EnvelopeDicts} \cup {NonMapping}

Batches == UNION {[1..n -> Envelopes] : n \in 0..MaxBatch}

\* JSON objects a 200 response can carry: every subset of the three fields.
ResponseObjects ==
    [data : Batches, iterator : Cursors, done : BOOLEAN]
        \cup [data : Batches, iterator : Cursors]
        \cup [data : Batches, done : BOOLEAN]
        \cup [iterator : Cursors, done : BOOLEAN]
        \cup [data : Batches]
        \cup [iterator : Cursors]
        \cup [done : BOOLEAN]

\* What session.get / response.json can do: raise a transport error, answer
\* a non-200 status, answer 200 with a body that is not JSON, with JSON that
\* is not an object, or with a JSON object.
Responses ==
    {[kind |-> "transport"], [kind |-> "status"], [kind |-> "invalid"],
     [kind |-> "nonobject"]}
        \cup {[kind |-> "object", body |-> o] : o \in ResponseObjects}

-----------------------------------------------------------------------------
(* Pure parts of the code *)

\* Variant: only the master branch is recognised.
RefMatches_MasterOnly(ref) == ref = "refs/heads/master"

\* Variant: only the main branch is recognised.
RefMatches_MainOnly(ref) == ref = "refs/heads/main"

\* main.py:37-40, the branch test of process_webhook_payload.
RefMatches(ref) == ref = "refs/heads/master" \/ ref = "refs/heads/main"

\* main.py:34-44.  payload.get raises AttributeError when payload is not a
\* dict; otherwise deploy() is called iff the ref matches.
process_webhook_payload(payload) ==
    IF ~IsMapping(payload)
    THEN [raised |-> "AttributeError", deployed |-> FALSE]
    ELSE [raised |-> None,
          deployed |-> RefMatches(PyGet(payload.val, "ref", None))]

\* Variant: the clause catches transport errors only.
PollExceptClause_ClientErrorOnly(exc) == exc = "ClientError"

\* Variant: a bare "except:" (catches BaseException too).
PollExceptClause_Bare(exc) == TRUE

\* main.py:97, the clause "except Exception" of poll_messages.
PollExceptClause(exc) == IsException(exc)

\* main.py:116, the clause "except Exception" of process_messages.
ProcessExceptClause(exc) == IsException(exc)

EmptyResult == [messages |-> <<>>, next_iterator |-> "", done |-> TRUE]

\* main.py:88-99.  The exception (or None) the try body raises for a response,
\* cancel = TRUE when the task is cancelled while the request is in flight.
PollTryRaises(resp, cancel) ==
    IF cancel THEN "CancelledError"
    ELSE IF resp.kind = "transport" THEN "ClientError"
    ELSE IF resp.kind = "status" THEN None
    ELSE IF resp.kind = "invalid" THEN "JSONDecodeError"
    ELSE IF resp.kind = "nonobject" THEN "AttributeError"
    ELSE None

\* Variant: a missing done field is read as False.
poll_messages_DoneDefaultFalse(resp, cancel) ==
    LET exc == PollTryRaises(resp, cancel) IN
    IF exc # None
    THEN IF PollExceptClause(exc)
         THEN [raised |-> None, result |-> EmptyResult]
         ELSE [raised |-> exc, result |-> EmptyResult]
    ELSE IF resp.kind = "status"
    THEN [raised |-> None, result |-> EmptyResult]
    ELSE [raised |-> None,
          result |-> [messages |-> PyGet(resp.body, "data", <<>>),
                      next_iterator |-> PyGet(resp.body, "iterator", ""),
                      done |-> PyGet(resp.body, "done", FALSE)]]

\* main.py:84-99: [raised, result] of one call.
poll_messages(resp, cancel) ==
    LET exc == PollTryRaises(resp, cancel) IN
    IF exc # None
    THEN IF PollExceptClause(exc)
         THEN [raised |-> None, result |-> EmptyResult]
         ELSE [raised |-> exc, result |-> EmptyResult]
    ELSE IF resp.kind = "status"
    THEN [raised |-> None, result |-> EmptyResult]
    ELSE [raised |-> None,
          result |-> [messages |-> PyGet(resp.body, "data", <<>>),
                      next_iterator |-> PyGet(resp.body, "iterator", ""),
                      done |-> PyGet(resp.body, "done", TRUE)]]

\* Variant: the parameter is always appended ("" for no cursor).
UrlIterator_AlwaysAppended(it) == IF it = None THEN "" ELSE it

\* main.py:85-86: the iterator query parameter of the request URL.
UrlIterator(it) == IF Truthy(it) THEN it ELSE None

\* Variant: the cursor is reset after every cycle.
NextCursor_AlwaysReset(d, nextIt) == None

\* Variant: the done flag is not consulted.
NextCursor_IgnoresDone(d, nextIt) == IF Truthy(nextIt) THEN nextIt ELSE None

\* main.py:144-148: the cursor run_poller keeps for the next call.
NextCursor(d, nextIt) == IF ~d /\ Truthy(nextIt) THEN nextIt ELSE None

\* Variant: the loop goes straight back to poll_messages.
StepAfterAdvance_NoSleep == "poll_call"

\* main.py:150: every iteration ends in asyncio.sleep(poll_interval).
StepAfterAdvance == "waiting"

\* Variant: "and" in place of "or".
ConfigMissing_Both(url, key) == ~Truthy(url) /\ ~Truthy(key)

\* main.py:167.
ConfigMissing(url, key) == ~Truthy(url) \/ ~Truthy(key)

\* Variant: the handler logs and returns.
ShutdownRaises_Nothing == None

\* main.py:152-156: handle_shutdown raises SystemExit(0).
ShutdownRaises == "SystemExit"

ShutdownCode == 0

\* Variant: the "except Exception" clause of main logs and returns.
MainExitStatus_NoExit(exc) == IF exc = "SystemExit" THEN ShutdownCode ELSE 0

\* main.py:177-183 and the interpreter's exit: the status the process ends
\* with when exc leaves asyncio.run.
MainExitStatus(exc) ==
    IF exc = "KeyboardInterrupt" THEN 0
    ELSE IF IsException(exc) THEN 1
    ELSE IF exc = "SystemExit" THEN ShutdownCode
    ELSE 1

MainLogFor(exc) ==
    IF exc = "KeyboardInterrupt" THEN {"shutting_down"}
    ELSE IF IsException(exc) THEN {"fatal"}
    ELSE {}

\* Variant: the payload is passed through verify_webhook first.
VerifiesPolled_Always == TRUE

\* main.py:113-115: process_messages hands msg.get("payload", {}) straight
\* to process_webhook_payload; verify_webhook (46-57) has no caller.
VerifiesPolled == FALSE

\* main.py:111-117, one iteration of the for loop on msg.  exc is an
\* exception delivered from outside while the try body runs (None: none).
\*   outcome: "deployed" / "ignored" (process_webhook_payload returned),
\*            "error" (the except clause logged), "raised" (an exception
\*            left process_messages; raised names it).
\*   verified: verify_webhook was called on the payload.
ProcessOne(msg, exc) ==
    LET body == IF exc # None THEN [raised |-> exc, deployed |-> FALSE]
                ELSE IF ~IsMapping(msg)
                THEN [raised |-> "AttributeError", deployed |-> FALSE]
                ELSE process_webhook_payload(PyGet(msg.val, "payload", JObject(EmptyDict)))
        verified == exc = None /\ IsMapping(msg) /\ VerifiesPolled
    IN  IF body.raised = None
        THEN [outcome |-> IF body.deployed THEN "deployed" ELSE "ignored",
              raised |-> None, verified |-> verified]
        ELSE IF ProcessExceptClause(body.raised)
        THEN \* the handler evaluates msg.get('id')
             IF IsMapping(msg)
             THEN [outcome |-> "error", raised |-> None, verified |-> verified]
             ELSE [outcome |-> "raised", raised |-> "AttributeError",
                   verified |-> verified]
        ELSE [outcome |-> "raised", raised |-> body.raised,
              verified |-> verified]

-----------------------------------------------------------------------------
VARIABLES
    pc,             \* where the process is
    endpoint_url,   \* os.getenv("SVIX_ENDPOINT_URL")
    api_key,        \* os.getenv("SVIX_API_KEY")
    handlers,       \* handle_shutdown installed for SIGINT and SIGTERM
    iterator,       \* run_poller's cursor
    req,            \* the latest call of poll_messages: [iterator, param]
    prevReq,        \* the call before it
    messages, next_iterator, done,  \* what the latest call returned
    hasResult,      \* some call of poll_messages has returned
    lastOutcome,    \* kind of the response of the latest returned call
    idx,            \* process_messages: index of the next message
    log,            \* this cycle's processing: Seq of [i, outcome]
    pmState,        \* process_messages in this cycle
    inflight,       \* calls of poll_messages not yet returned
    waitsStarted, waitsDone,   \* sleeps since the latest call returned
    sigAt,          \* pc at which the shutdown signal arrived
    exitStatus,     \* exit status of the process
    mainLog,        \* what main / handle_shutdown logged
    lastKeys,       \* fields of the JSON object of the latest returned call
    verifyCalled,   \* verify_webhook has been called
    deploys         \* deploy() calls per message id, counted to MaxDeploys

vars == <<pc, endpoint_url, api_key, handlers, iterator, req, prevReq,
          messages, next_iterator, done, hasResult, lastOutcome, idx, log,
          pmState, inflight, waitsStarted, waitsDone, sigAt, exitStatus,
          mainLog, lastKeys, verifyCalled, deploys>>

NoReq == [iterator |-> None, param |-> None, made |-> FALSE]

Init ==
    /\ pc = "main"
    /\ endpoint_url \in EnvValues
    /\ api_key \in EnvValues
    /\ handlers = FALSE
    /\ iterator = None
    /\ req = NoReq
    /\ prevReq = NoReq
    /\ messages = <<>>
    /\ next_iterator = ""
    /\ done = TRUE
    /\ hasResult = FALSE
    /\ lastOutcome = "none"
    /\ idx = 1
    /\ log = <<>>
    /\ pmState = "idle"
    /\ inflight = 0
    /\ waitsStarted = 0
    /\ waitsDone = 0
    /\ sigAt = "none"
    /\ exitStatus = Running
    /\ mainLog = {}
    /\ lastKeys = {}
    /\ verifyCalled = FALSE
    /\ deploys = [m \in MsgIds |-> 0]

\* An exception exc leaves run_poller: asyncio.run re-raises it in main.
Escape(exc) ==
    /\ pc' = "exited"
    /\ exitStatus' = MainExitStatus(exc)
    /\ mainLog' = mainLog \cup MainLogFor(exc)
    /\ inflight' = 0

\* main.py:158-178 up to the first statement of run_poller.
main ==
    /\ pc = "main"
    /\ IF ConfigMissing(endpoint_url, api_key)
       THEN /\ pc' = "exited"
            /\ exitStatus' = 0
            /\ mainLog' = mainLog \cup {"config_error"}
            /\ UNCHANGED <<handlers, iterator>>
       ELSE /\ pc' = "poll_call"
            /\ handlers' = TRUE
            /\ iterator' = None
            /\ UNCHANGED <<exitStatus, mainLog>>
    /\ UNCHANGED <<endpoint_url, api_key, req, prevReq, messages,
                   next_iterator, done, hasResult, lastOutcome, idx, log,
                   pmState, inflight, waitsStarted, waitsDone, sigAt,
                   lastKeys, verifyCalled, deploys>>

\* main.py:137-138, 78-89: the call of poll_messages up to the request.
poll_call ==
    /\ pc = "poll_call"
    /\ pc' = "fetching"
    /\ prevReq' = req
    /\ req' = [iterator |-> iterator, param |-> UrlIterator(iterator),
               made |-> TRUE]
    /\ inflight' = inflight + 1
    /\ UNCHANGED <<endpoint_url, api_key, handlers, iterator, messages,
                   next_iterator, done, hasResult, lastOutcome, idx, log,
                   pmState, waitsStarted, waitsDone, sigAt, exitStatus,
                   mainLog, lastKeys, verifyCalled, deploys>>

\* The state run_poller is in once poll_messages has returned r (137-142).
Returned(r, kind) ==
    /\ messages' = r.messages
    /\ next_iterator' = r.next_iterator
    /\ done' = r.done
    /\ hasResult' = TRUE
    /\ lastOutcome' = kind
    /\ idx' = 1
    /\ log' = <<>>
    /\ waitsStarted' = 0
    /\ waitsDone' = 0
    /\ inflight' = inflight - 1
    /\ IF r.messages # <<>>
       THEN pc' = "processing" /\ pmState' = "running"
       ELSE pc' = "advance" /\ pmState' = "idle"

\* main.py:89-99, 137-142: the request completes and poll_messages returns.
poll_return ==
    /\ pc = "fetching"
    /\ \E resp \in Responses :
         LET r == poll_messages(resp, FALSE) IN
         /\ lastKeys' = IF resp.kind = "object" THEN DOMAIN resp.body ELSE {}
         /\ IF r.raised = None
            THEN /\ Returned(r.result, resp.kind)
                 /\ UNCHANGED <<exitStatus, mainLog>>
            ELSE /\ Escape(r.raised)
                 /\ lastOutcome' = resp.kind
                 /\ UNCHANGED <<messages, next_iterator, done, hasResult,
                                idx, log, pmState, waitsStarted, waitsDone>>
    /\ UNCHANGED <<endpoint_url, api_key, handlers, iterator, req, prevReq,
                   sigAt, verifyCalled, deploys>>

\* One more deploy() call counted for message id m.
Counted(d, m) ==
    [d EXCEPT ![m] = IF @ < MaxDeploys THEN @ + 1 ELSE MaxDeploys]

\* The state after one loop iteration of process_messages gave result p.
Processed(p) ==
    /\ verifyCalled' = (verifyCalled \/ p.verified)
    /\ IF p.outcome = "raised"
       THEN
         /\ Escape(p.raised)
         /\ pmState' = IF IsException(p.raised) THEN "raised" ELSE "interrupted"
         /\ UNCHANGED <<idx, log, deploys>>
       ELSE
         /\ log' = Append(log, [i |-> idx, outcome |-> p.outcome])
         /\ deploys' = IF p.outcome = "deployed"
                       THEN Counted(deploys, PyGet(messages[idx].val, "id", None))
                       ELSE deploys
         /\ idx' = idx + 1
         /\ IF idx = Len(messages)
            THEN pc' = "advance" /\ pmState' = "returned"
            ELSE pc' = "processing" /\ pmState' = "running"
         /\ UNCHANGED <<exitStatus, mainLog, inflight>>

\* main.py:111-117: one message of the batch.
process_messages ==
    /\ pc = "processing"
    /\ Processed(ProcessOne(messages[idx], None))
    /\ UNCHANGED <<endpoint_url, api_key, handlers, iterator, req, prevReq,
                   messages, next_iterator, done, hasResult, lastOutcome,
                   waitsStarted, waitsDone, sigAt, lastKeys>>

\* main.py:144-150: the cursor update, then the sleep begins.  The batch is
\* never read again after line 142 (the next call of poll_messages rebinds
\* messages), so the model drops it and its processing record here.
advance ==
    /\ pc = "advance"
    /\ iterator' = NextCursor(done, next_iterator)
    /\ pc' = IF StepAfterAdvance = "waiting" THEN "waiting" ELSE "poll_call"
    /\ waitsStarted' = IF StepAfterAdvance = "waiting"
                       THEN waitsStarted + 1 ELSE waitsStarted
    /\ messages' = <<>>
    /\ log' = <<>>
    /\ idx' = 1
    /\ pmState' = "idle"
    /\ UNCHANGED <<endpoint_url, api_key, handlers, req, prevReq,
                   next_iterator, done, hasResult, lastOutcome,
                   inflight, waitsDone, sigAt, exitStatus, mainLog,
                   lastKeys, verifyCalled, deploys>>

\* main.py:150, 136: the sleep completes and the loop starts over.
wake ==
    /\ pc = "waiting"
    /\ pc' = "poll_call"
    /\ waitsDone' = waitsDone + 1
    /\ UNCHANGED <<endpoint_url, api_key, handlers, iterator, req, prevReq,
                   messages, next_iterator, done, hasResult, lastOutcome,
                   idx, log, pmState, inflight, waitsStarted, sigAt,
                   exitStatus, mainLog, lastKeys, verifyCalled, deploys>>

\* main.py:152-156, 174-183: SIGINT or SIGTERM arrives while run_poller
\* runs.  handle_shutdown runs in the main thread and raises SystemExit(0).
\*  - task suspended (fetching, waiting): SystemExit leaves the event loop;
\*    asyncio.run cancels the task, which gets CancelledError at its await.
\*  - task running (poll_call, processing, advance): SystemExit is raised
\*    inside the coroutine at the statement being executed.
handle_shutdown ==
    /\ handlers
    /\ sigAt = "none"
    /\ pc \in {"poll_call", "fetching", "processing", "advance", "waiting"}
    /\ sigAt' = pc
    /\ IF ShutdownRaises = None
       THEN /\ mainLog' = mainLog \cup {"signal"}
            /\ UNCHANGED <<pc, exitStatus, inflight, messages, next_iterator,
                           done, hasResult, lastOutcome, idx, log, pmState,
                           waitsStarted, waitsDone>>
       ELSE
       CASE pc = "fetching" ->
              LET r == poll_messages([kind |-> "status"], TRUE) IN
              IF r.raised = None
              THEN \* the cancellation is swallowed: the task goes on
                   /\ Returned(r.result, "cancelled")
                   /\ mainLog' = mainLog \cup {"signal"}
                   /\ UNCHANGED exitStatus
              ELSE /\ pc' = "exited"
                   /\ exitStatus' = MainExitStatus(ShutdownRaises)
                   /\ mainLog' = mainLog \cup {"signal"}
                                     \cup MainLogFor(ShutdownRaises)
                   /\ inflight' = 0
                   /\ UNCHANGED <<messages, next_iterator, done, hasResult,
                                  lastOutcome, idx, log, pmState,
                                  waitsStarted, waitsDone>>
         [] pc = "processing" ->
              LET p == ProcessOne(messages[idx], ShutdownRaises) IN
              /\ IF p.outcome = "raised"
                 THEN /\ pc' = "exited"
                      /\ exitStatus' = MainExitStatus(p.raised)
                      /\ mainLog' = mainLog \cup {"signal"}
                                        \cup MainLogFor(p.raised)
                      /\ pmState' = IF IsException(p.raised)
                                    THEN "raised" ELSE "interrupted"
                      /\ UNCHANGED <<idx, log, inflight>>
                 ELSE /\ log' = Append(log, [i |-> idx, outcome |-> p.outcome])
                      /\ idx' = idx + 1
                      /\ IF idx = Len(messages)
                         THEN pc' = "advance" /\ pmState' = "returned"
                         ELSE pc' = "processing" /\ pmState' = "running"
                      /\ mainLog' = mainLog \cup {"signal"}
                      /\ UNCHANGED <<exitStatus, inflight>>
              /\ UNCHANGED <<messages, next_iterator, done, hasResult,
                             lastOutcome, waitsStarted, waitsDone>>
         [] OTHER ->
              /\ pc' = "exited"
              /\ exitStatus' = MainExitStatus(ShutdownRaises)
              /\ mainLog' = mainLog \cup {"signal"}
                                \cup MainLogFor(ShutdownRaises)
              /\ UNCHANGED <<inflight, messages, next_iterator, done,
                             hasResult, lastOutcome, idx, log, pmState,
                             waitsStarted, waitsDone>>
    /\ UNCHANGED <<endpoint_url, api_key, handlers, iterator, req, prevReq,
                   lastKeys, verifyCalled, deploys>>

Next ==
    \/ main
    \/ poll_call
    \/ poll_return
    \/ process_messages
    \/ advance
    \/ wake
    \/ handle_shutdown

Spec == Init /\ [][Next]_vars

-----------------------------------------------------------------------------
(* Properties *)

\* The payload process_messages hands to process_webhook_payload for msg.
PayloadOf(msg) == PyGet(msg.val, "payload", JObject(EmptyDict))

\* A call of poll_messages is in flight and an earlier one has returned:
\* done and next_iterator still hold what that earlier call returned.
NextCallMade == pc = "fetching" /\ hasResult

\* C1: when a fetch returned done=false with a non-empty iterator c, the
\* next call of poll_messages is made with iterator = c, and the request
\* carries c as its iterator parameter.
C1_NextFetchUsesReturnedIterator ==
    (NextCallMade /\ done = FALSE /\ next_iterator \notin {"", None})
        => (req.iterator = next_iterator /\ req.param = next_iterator)

C1_Witness ==
    /\ NextCallMade
    /\ done = FALSE
    /\ next_iterator = "c1"
    /\ req.iterator = "c1"
    /\ prevReq.iterator = "c2"

\* C2: when a fetch returned done=true (any iterator), or done=false with an
\* empty iterator, the next call of poll_messages is made with no cursor and
\* the request carries no iterator parameter.
C2_NextFetchWithoutCursor ==
    (NextCallMade /\ (done = TRUE \/ next_iterator = ""))
        => (req.iterator = None /\ req.param = None)

C2_Witness ==
    /\ NextCallMade
    /\ done = TRUE
    /\ next_iterator = "c2"
    /\ prevReq.iterator = "c1"
    /\ req.param = None

\* C3: for every payload that is a mapping, process_webhook_payload invokes
\* deploy iff its ref is refs/heads/master or refs/heads/main; any other
\* ref, or no ref, invokes nothing and raises nothing.
C3_DeployIffBranchRef ==
    \A k \in 1..Len(log) :
        LET msg == messages[log[k].i] IN
        (IsMapping(msg) /\ IsMapping(PayloadOf(msg))) =>
            /\ log[k].outcome \in {"deployed", "ignored"}
            /\ log[k].outcome = "deployed" <=>
                   /\ "ref" \in DOMAIN PayloadOf(msg).val
                   /\ PayloadOf(msg).val.ref
                          \in {"refs/heads/master", "refs/heads/main"}

C3_Witness ==
    /\ Len(log) = 2
    /\ log[1].outcome = "deployed"
    /\ PayloadOf(messages[1]).val = [ref |-> "refs/heads/master"]
    /\ log[2].outcome = "ignored"
    /\ "ref" \notin DOMAIN PayloadOf(messages[2]).val

\* A message that cannot be evaluated: the envelope is not a mapping, or
\* its payload is not a mapping.
Malformed(msg) == ~IsMapping(msg) \/ ~IsMapping(PayloadOf(msg))

MalformedAt(batch) == {i \in DOMAIN batch : Malformed(batch[i])}

LoggedAs(outcomes) == {log[k].i : k \in {j \in 1..Len(log) : log[j].outcome \in outcomes}}

\* C4: when process_messages has finished a batch with exactly one malformed
\* message, it returned normally, exactly the valid messages were evaluated
\* and the malformed one produced a logged error.
C4_MalformedMessageIsolated ==
    (pmState \in {"returned", "raised"} /\ Cardinality(MalformedAt(messages)) = 1)
        => /\ pmState = "returned"
           /\ LoggedAs({"deployed", "ignored"}) = DOMAIN messages \ MalformedAt(messages)
           /\ LoggedAs({"error"}) = MalformedAt(messages)

FetchFailed == lastOutcome \in {"transport", "status", "invalid", "nonobject"}

\* C5: a failed fetch (transport error, non-200 status, body that is not a
\* JSON object) makes poll_messages return ([], "", True) without raising;
\* nothing is processed in that cycle and the next call is made with no
\* cursor.
C5_FetchFailureIsEmptyCycle ==
    FetchFailed =>
        /\ hasResult
        /\ exitStatus # 1
        /\ "fatal" \notin mainLog
        /\ messages = <<>> /\ next_iterator = "" /\ done = TRUE
        /\ log = <<>> /\ pmState = "idle" /\ pc # "processing"
        /\ pc = "fetching" => (req.iterator = None /\ req.param = None)

C5_Witness ==
    /\ FetchFailed
    /\ lastOutcome = "invalid"
    /\ pc = "fetching"
    /\ prevReq.param = "c1"
    /\ req.param = None

\* C6: no failure raised while processing a message leaves
\* process_messages, so none ends the process.
C6_ProcessingFailureContained ==
    pmState # "raised" /\ (pc = "exited" /\ sigAt = "none" => exitStatus = 0)

\* C7: a shutdown signal that arrives during the inter-iteration wait stops
\* the loop there: the wait is not completed and no call of poll_messages
\* follows.
C7_ShutdownInWaitStops ==
    sigAt = "waiting" =>
        /\ pc = "exited"
        /\ inflight = 0
        /\ waitsStarted = 1 /\ waitsDone = 0
        /\ log = <<>>

C7_Witness ==
    sigAt = "waiting" /\ pc = "exited" /\ req.made /\ done = FALSE

\* C8: a shutdown signal that arrives while a fetch is in flight or a batch
\* is being processed ends the process with status 0: it is not turned into
\* an empty cycle or a logged processing error, and not reported as fatal.
C8_ShutdownInFlightExitsClean ==
    sigAt \in {"fetching", "processing"} =>
        /\ pc = "exited"
        /\ exitStatus = 0
        /\ "fatal" \notin mainLog
        /\ lastOutcome # "cancelled"
        /\ sigAt = "processing" => pmState = "interrupted"

C8_Witness ==
    sigAt = "fetching" /\ pc = "exited" /\ exitStatus = 0 /\ req.param = "c1"

\* C9: at most one call of poll_messages is in flight, and between two
\* consecutive calls exactly one sleep has started and completed.
C9_CyclesNeverOverlap ==
    /\ inflight <= 1
    /\ inflight = 1 <=> pc = "fetching"
    /\ (pc \in {"poll_call", "fetching"} /\ hasResult)
           => (waitsStarted = 1 /\ waitsDone = 1)

C9_Witness ==
    /\ NextCallMade
    /\ inflight = 1
    /\ done = FALSE /\ next_iterator = "c1"
    /\ waitsDone = 1

\* C10: with the endpoint URL or the API key unset or empty, main logs the
\* error and exits with status 0; no handler is installed, no call of
\* poll_messages is made and nothing is processed.
C10_MissingConfigExitsBeforeLoop ==
    (endpoint_url \in {None, ""} \/ api_key \in {None, ""}) =>
        /\ pc \in {"main", "exited"}
        /\ ~handlers
        /\ ~req.made /\ inflight = 0 /\ ~hasResult
        /\ log = <<>>
        /\ pc = "exited" => (exitStatus = 0 /\ mainLog = {"config_error"})

C10_Witness ==
    /\ pc = "exited"
    /\ endpoint_url = "set"
    /\ api_key = ""
    /\ exitStatus = 0

ConfigAbsent == endpoint_url \in {None, ""} \/ api_key \in {None, ""}

\* C11: an exception that leaves the iteration body of run_poller ends the
\* process with status 1 after main logged it as fatal; status 0 is reached
\* only after a shutdown signal or with the configuration missing.
C11_EscapedFaultExitsNonZero ==
    /\ pmState = "raised" =>
           (pc = "exited" /\ exitStatus = 1 /\ "fatal" \in mainLog)
    /\ (pc = "exited" /\ sigAt = "none" /\ ~ConfigAbsent) =>
           (exitStatus = 1 /\ "fatal" \in mainLog)
    /\ exitStatus = 0 => (sigAt # "none" \/ ConfigAbsent)

C11_Witness ==
    /\ pmState = "raised"
    /\ pc = "exited"
    /\ exitStatus = 1
    /\ Len(messages) = 2 /\ idx = 2

\* C12: without a shutdown signal the poll loop never stops (whatever a
\* fetch returned, another call of poll_messages follows), and after a
\* failed fetch the next call comes only after the cycle's sleep.
C12_LoopNeverStopsFetching ==
    /\ (handlers /\ sigAt = "none") => pc # "exited"
    /\ (FetchFailed /\ pc \in {"poll_call", "fetching"}) => waitsDone = 1

\* C13 as stated: in every state the cursor is absent or the iterator value
\* the latest returned fetch gave.
C13_CursorIsLatestReturned ==
    iterator = None \/ (hasResult /\ iterator = next_iterator)

\* C13, amended: from a cycle's cursor update until the next call of
\* poll_messages returns, the cursor is absent or the iterator value the
\* latest fetch returned; between a fetch's return and the cursor update it
\* is still the value that fetch was called with.  The first call is made
\* with no cursor, and a call sends the cursor unaltered or not at all.
C13_CursorFromPrecedingFetch ==
    /\ pc \in {"waiting", "poll_call", "fetching"} =>
           (iterator = None \/ (hasResult /\ iterator = next_iterator))
    /\ pc \in {"processing", "advance"} => iterator = req.iterator
    /\ ~hasResult => iterator = None
    /\ (req.made /\ ~prevReq.made) => (req.iterator = None /\ req.param = None)
    /\ pc = "fetching" =>
           (req.iterator = iterator /\ req.param \in {None, iterator})

C13_Witness ==
    /\ pc = "advance"
    /\ iterator = "c1"
    /\ req.iterator = "c1"
    /\ next_iterator = "c2"
    /\ done = FALSE

\* Positions of the batch whose payload ref is a recognised branch ref.
RecognizedAt(batch) ==
    {i \in DOMAIN batch :
        /\ IsMapping(batch[i])
        /\ IsMapping(PayloadOf(batch[i]))
        /\ "ref" \in DOMAIN PayloadOf(batch[i]).val
        /\ PayloadOf(batch[i]).val.ref
               \in {"refs/heads/master", "refs/heads/main"}}

\* C14: the envelopes of a batch are processed in the order of the data
\* array; when process_messages has finished, deploy was invoked once per
\* envelope with a recognised ref; an empty batch is not processed at all.
C14_BatchInOrderAndCounted ==
    /\ \A k \in 1..Len(log) : log[k].i = k
    /\ pmState \in {"returned", "raised"} =>
           Cardinality(LoggedAs({"deployed"}))
               = Cardinality(RecognizedAt(messages))
    /\ (pc = "advance" /\ messages = <<>>) => (pmState = "idle" /\ log = <<>>)

\* C15: for a 200 response with a JSON object, a missing data field gives a
\* cycle in which nothing is processed, a missing iterator gives "", and a
\* missing done field is read as done, so that the next call is made with
\* no cursor even when the response carried an iterator.
C15_MissingFieldsDefault ==
    lastOutcome = "object" =>
        /\ "data" \notin lastKeys =>
               (messages = <<>> /\ log = <<>> /\ pmState = "idle"
                    /\ pc # "processing")
        /\ "iterator" \notin lastKeys => next_iterator = ""
        /\ "done" \notin lastKeys =>
               /\ done = TRUE
               /\ pc \in {"waiting", "poll_call", "fetching"} => iterator = None
               /\ pc = "fetching" => req.param = None

C15_Witness ==
    /\ lastOutcome = "object"
    /\ lastKeys = {"iterator"}
    /\ next_iterator = "c1"
    /\ pc = "fetching"
    /\ prevReq.param = "c2"
    /\ req.param = None

\* C16: no payload fetched by the poll loop is passed through
\* verify_webhook, so deploy is invoked without a signature check.
C16_PolledPayloadsNotVerified == ~verifyCalled

C16_Witness ==
    /\ ~verifyCalled
    /\ Len(log) = 1
    /\ log[1].outcome = "deployed"

\* C17: every delivery of an envelope with a recognised ref invokes deploy,
\* however often deploy was already invoked for its id: the count for one
\* id is not bounded by one.
C17_DeployOnEveryDelivery ==
    [][(pc = "processing" /\ sigAt' = sigAt /\ idx \in RecognizedAt(messages))
           => LET m == messages[idx].val.id IN
              /\ log' = Append(log, [i |-> idx, outcome |-> "deployed"])
              /\ deploys'[m] = IF deploys[m] < MaxDeploys
                               THEN deploys[m] + 1 ELSE MaxDeploys]_vars

C17_Witness ==
    /\ deploys["m1"] = 2
    /\ Len(messages) = 1
    /\ Len(log) = 1
    /\ log[1].outcome = "deployed"
    /\ prevReq.made
    /\ req.iterator = None

=============================================================================
